---- MODULE Spec2Model ----
(***************************************************************************)
(* The matching engine of src/exchange.py: Exchange.on_order_received and  *)
(* the RabbitMQ message callback of main() that drives it.                 *)
(*                                                                         *)
(* One callback invocation is a sequence of steps ordered by pc:           *)
(*   idle --CallbackReceive--> match --MatchIteration*--> match            *)
(*        --ReturnTrades--> publish --PublishTrade*--> publish             *)
(*        --Ack--> idle                                                    *)
(* A payload that does not decode is acknowledged in one step              *)
(* (CallbackDecodeError); one that decodes to an object without the order  *)
(* fields raises KeyError inside on_order_received and ends the consumer   *)
(* (CallbackKeyError, pc = "crashed").                                     *)
(***************************************************************************)
EXTENDS Integers, Sequences, FiniteSets

\* ------------------------------------------------------------------ bounds
\* Messages delivered, price levels and quantities.  With all three raised at
\* once the state space is some 10^8 states; the formulas of C1-C9 were also
\* checked at (MaxOrders, MaxPrice, MaxQty) = (4, 2, 2) and (3, 3, 3).
MaxOrders == 3
MaxPrice == 2
MaxQty == 2
MaxRawMsgs == 2

Users == {"A", "B"}
Symbols == {"S1", "S2"}
Sides == {"BUY", "SELL"}

\* ---------------------------------------------------------------- messages
\* A message body as the callback sees it.  tag = "order": JSON that decodes
\* to an object carrying the five order fields; tag = "nokey": JSON that
\* decodes but lacks an order field; tag = "garbage": bytes that do not decode.
Body(t, u, s, sd, p, q) ==
    [tag |-> t, username |-> u, symbol |-> s, side |-> sd, price |-> p, quantity |-> q]

NoOrder == Body("none", "", "", "", 0, 0)

\* Orders meeting the engine's precondition (spec section 4.2).
ValidOrders ==
    { Body("order", u, s, sd, p, q) :
        u \in Users, s \in Symbols, sd \in Sides, p \in 1..MaxPrice, q \in 1..MaxQty }

\* Everything json.loads and the broker can hand the callback: the valid
\* orders, orders with an unknown side or a non-positive price or quantity,
\* an object without the order fields, and bytes that do not decode.
RawBodies ==
    { Body("order", u, s, sd, p, q) :
        u \in Users, s \in Symbols, sd \in Sides \cup {"HOLD"},
        p \in 0..MaxPrice, q \in (-1)..MaxQty }
    \cup {Body("nokey", "", "", "", 0, 0), Body("garbage", "", "", "", 0, 0)}

IsValidOrder(o) ==
    /\ o.tag = "order"
    /\ o.side \in Sides
    /\ o.price > 0
    /\ o.quantity > 0

\* ------------------------------------------------------------------- state
VARIABLES
    order_books,    \* Exchange.order_books: symbol -> [buy, sell], each a list
    pc,             \* position of the callback
    order,          \* the decoded order the callback is working on
    remaining_qty,  \* on_order_received local
    matched,        \* on_order_received local
    trades,         \* on_order_received local, then the callback's local
    pub_i,          \* index of the callback's `for t in trades` loop
    published,      \* the trades queue: what basic_publish has sent, in order
    acks,           \* delivery tags passed to basic_ack, in order
    inbox,          \* bodies delivered so far; the delivery tag is the index
    tape,           \* trades in the order they were matched (history)
    book_at_entry   \* order_books as on_order_received found it (history)

vars == <<order_books, pc, order, remaining_qty, matched, trades, pub_i,
          published, acks, inbox, tape, book_at_entry>>

\* ----------------------------------------------------------------- helpers
Min(S) == CHOOSE x \in S : \A y \in S : x <= y

\* list.pop(i), 1-based
Pop(list, i) == SubSeq(list, 1, i - 1) \o SubSeq(list, i + 1, Len(list))

\* dict equality of two book entries: the five keys the program stores (the
\* arrival stamp seq is history, not a key of the dict)
SameDict(a, b) ==
    /\ a.username = b.username
    /\ a.symbol = b.symbol
    /\ a.side = b.side
    /\ a.price = b.price
    /\ a.quantity = b.quantity

\* list.index(x): the first position holding an equal dict; 0 stands for the
\* ValueError python raises when there is none
ListIndex(list, x) ==
    LET hits == {i \in 1..Len(list) : SameDict(list[i], x)}
    IN IF hits = {} THEN 0 ELSE Min(hits)

\* mutant: a sort that is not stable (an entry goes before its equals)
InsertPos_Unstable(list, idx, i, reverse) ==
    LET notbetter(k) == IF reverse THEN list[idx[k]].price <= list[i].price
                                   ELSE list[idx[k]].price >= list[i].price
        cands == {k \in 1..Len(idx) : notbetter(k)}
    IN IF cands = {} THEN Len(idx) + 1
       ELSE CHOOSE x \in cands : \A y \in cands : x <= y

\* Python's sorted()/list.sort() on key price: stable, also with reverse=True.
\* The result is the sequence of positions of `list` in sorted order.
InsertPos(list, idx, i, reverse) ==
    LET worse(k) == IF reverse THEN list[idx[k]].price < list[i].price
                               ELSE list[idx[k]].price > list[i].price
        cands == {k \in 1..Len(idx) : worse(k)}
    IN IF cands = {} THEN Len(idx) + 1 ELSE Min(cands)

RECURSIVE SortedIdx(_, _, _)
SortedIdx(list, n, reverse) ==
    IF n = 0 THEN <<>>
    ELSE LET prev == SortedIdx(list, n - 1, reverse)
             p == InsertPos(list, prev, n, reverse)
         IN SubSeq(prev, 1, p - 1) \o <<n>> \o SubSeq(prev, p, Len(prev))

\* the list read in the order idx gives, built entry by entry as a new list
RECURSIVE Permuted(_, _, _)
Permuted(list, idx, k) ==
    IF k = 0 THEN <<>> ELSE Append(Permuted(list, idx, k - 1), list[idx[k]])

PySorted(list, reverse) ==
    Permuted(list, SortedIdx(list, Len(list), reverse), Len(list))

\* ------------------------------------------------- Exchange (src/exchange.py)
EmptyBooks == [s \in {} |-> [buy |-> <<>>, sell |-> <<>>]]

\* mutant: the `if symbol not in` test is lost, the book is made anew each time
_init_symbol_Always(books, symbol) ==
    [s \in DOMAIN books \cup {symbol} |->
        IF s = symbol THEN [buy |-> <<>>, sell |-> <<>>] ELSE books[s]]

\* mutant: a new symbol replaces the registry instead of joining it
_init_symbol_Fresh(books, symbol) ==
    IF symbol \in DOMAIN books THEN books
    ELSE [s \in {symbol} |-> [buy |-> <<>>, sell |-> <<>>]]

_init_symbol_if_needed(books, symbol) ==
    IF symbol \in DOMAIN books THEN books
    ELSE [s \in DOMAIN books \cup {symbol} |->
            IF s = symbol THEN [buy |-> <<>>, sell |-> <<>>] ELSE books[s]]

\* mutant: only the exact string "SELL" rests in the sell list
SameKey_SellOnly(side) == IF side = "SELL" THEN "sell" ELSE "buy"

\* which book lists an order of `side` matches against and rests in
OppositeKey(side) == IF side = "BUY" THEN "sell" ELSE "buy"
SameKey(side) == IF side = "BUY" THEN "buy" ELSE "sell"

\* mutant: the SELL branch compares the wrong way round
match_condition_SellInverted(side, opposite_price, my_price) ==
    IF side = "BUY" THEN opposite_price <= my_price
                    ELSE opposite_price <= my_price

\* mutant: strict comparisons
match_condition_Strict(side, opposite_price, my_price) ==
    IF side = "BUY" THEN opposite_price < my_price
                    ELSE opposite_price > my_price

match_condition(side, opposite_price, my_price) ==
    IF side = "BUY" THEN opposite_price <= my_price
                    ELSE opposite_price >= my_price

\* mutant: the two sort directions swapped
sort_opposite_Flipped(side, orders) ==
    SortedIdx(orders, Len(orders), side = "BUY")

\* positions of the opposite list, best price first
sort_opposite(side, orders) ==
    SortedIdx(orders, Len(orders), side # "BUY")

\* the `for opp_order in opposite_list_sorted` scan: the position (in the
\* unsorted list) of the first order of the sorted list that matches, 0 if none
FirstMatch(side, price, opposite_list) ==
    LET idx == sort_opposite(side, opposite_list)
        hits == {k \in 1..Len(idx) :
                    match_condition(side, opposite_list[idx[k]].price, price)}
    IN IF hits = {} THEN 0 ELSE idx[Min(hits)]

\* mutant: the partial-fill branch trades the resting order's whole quantity
TradeQty_WholeMaker(opp_qty, remaining) ==
    IF opp_qty = remaining THEN remaining
    ELSE IF opp_qty > remaining THEN opp_qty
    ELSE opp_qty

\* the three branches on opp_qty against remaining_qty
TradeQty(opp_qty, remaining) ==
    IF opp_qty = remaining THEN remaining
    ELSE IF opp_qty > remaining THEN remaining
    ELSE opp_qty

\* mutant: the partial-fill branch forgets `remaining_qty = 0`
RemainingAfter_KeepsOnPartial(opp_qty, remaining) ==
    IF opp_qty = remaining THEN 0
    ELSE IF opp_qty > remaining THEN remaining
    ELSE remaining - opp_qty

\* mutant: the last branch forgets `remaining_qty -= opp_qty`
RemainingAfter_NoProgress(opp_qty, remaining) ==
    IF opp_qty = remaining THEN 0
    ELSE IF opp_qty > remaining THEN 0
    ELSE remaining

RemainingAfter(opp_qty, remaining) ==
    IF opp_qty = remaining THEN 0
    ELSE IF opp_qty > remaining THEN 0
    ELSE remaining - opp_qty

\* mutant: the partial-fill branch forgets to reduce the resting quantity
OppositeAfter_NoDecrement(opposite_list, j, remaining) ==
    LET opp_order == opposite_list[j]
        opp_qty == opp_order.quantity
        original_index == ListIndex(opposite_list, opp_order)
    IN IF opp_qty = remaining THEN Pop(opposite_list, original_index)
       ELSE IF opp_qty > remaining THEN opposite_list
       ELSE Pop(opposite_list, original_index)

\* mutant: the exact match is handled as a partial fill (>= for >)
OppositeAfter_KeepsZero(opposite_list, j, remaining) ==
    LET opp_order == opposite_list[j]
        opp_qty == opp_order.quantity
        original_index == ListIndex(opposite_list, opp_order)
    IN IF opp_qty >= remaining
       THEN [opposite_list EXCEPT ![j].quantity = opp_qty - remaining]
       ELSE Pop(opposite_list, original_index)

\* the opposite list after the match with the order at position j
OppositeAfter(opposite_list, j, remaining) ==
    LET opp_order == opposite_list[j]
        opp_qty == opp_order.quantity
        original_index == ListIndex(opposite_list, opp_order)
    IN IF opp_qty = remaining THEN Pop(opposite_list, original_index)
       ELSE IF opp_qty > remaining
            THEN [opposite_list EXCEPT ![j].quantity = opp_qty - remaining]
       ELSE Pop(opposite_list, original_index)

\* mutant: the incoming order's user is always the buyer
trade_info_TakerBuys(o, opp_order, trade_qty) ==
    [symbol |-> o.symbol,
     buyer |-> o.username,
     seller |-> opp_order.username,
     price |-> opp_order.price,
     quantity |-> trade_qty]

\* mutant: the trade takes the incoming order's price
trade_info_TakerPrice(o, opp_order, trade_qty) ==
    [symbol |-> o.symbol,
     buyer |-> IF o.side = "BUY" THEN o.username ELSE opp_order.username,
     seller |-> IF o.side = "BUY" THEN opp_order.username ELSE o.username,
     price |-> o.price,
     quantity |-> trade_qty]

trade_info(o, opp_order, trade_qty) ==
    [symbol |-> o.symbol,
     buyer |-> IF o.side = "BUY" THEN o.username ELSE opp_order.username,
     seller |-> IF o.side = "BUY" THEN opp_order.username ELSE o.username,
     price |-> opp_order.price,
     quantity |-> trade_qty]

\* mutant: the residual keeps the order's original quantity
new_order_FullQty(o, remaining, stamp) ==
    [username |-> o.username, symbol |-> o.symbol, side |-> o.side,
     price |-> o.price, quantity |-> o.quantity, seq |-> stamp]

\* the residual entry; seq is the arrival stamp (the delivery tag)
new_order(o, remaining, stamp) ==
    [username |-> o.username, symbol |-> o.symbol, side |-> o.side,
     price |-> o.price, quantity |-> remaining, seq |-> stamp]

\* mutant: the BUY branch forgets reverse=True
InsertResidual_NoReverse(side, same_side_list, entry) ==
    LET list == Append(same_side_list, entry)
        idx == SortedIdx(list, Len(list), FALSE)
    IN [k \in 1..Len(list) |-> list[idx[k]]]

\* same_side_list.append(new_order) followed by the stable sort
InsertResidual(side, same_side_list, entry) ==
    PySorted(Append(same_side_list, entry), side = "BUY")

\* mutant: the loop runs on whatever the remaining quantity is
LoopCondition_NoQtyCheck ==
    /\ matched
    /\ Len(order_books[order.symbol][OppositeKey(order.side)]) > 0

\* the while condition of the matching loop
LoopCondition ==
    /\ remaining_qty > 0
    /\ matched
    /\ Len(order_books[order.symbol][OppositeKey(order.side)]) > 0

\* on_order_received as one function of (order_books, order): the loop run to
\* its end, the residual rested, the trades returned
RECURSIVE MatchLoop(_, _, _, _)
MatchLoop(o, opposite_list, remaining, ts) ==
    IF ~(remaining > 0 /\ Len(opposite_list) > 0)
    THEN [opposite |-> opposite_list, remaining |-> remaining, trades |-> ts]
    ELSE LET j == FirstMatch(o.side, o.price, opposite_list)
         IN IF j = 0
            THEN [opposite |-> opposite_list, remaining |-> remaining, trades |-> ts]
            ELSE MatchLoop(o,
                           OppositeAfter(opposite_list, j, remaining),
                           RemainingAfter(opposite_list[j].quantity, remaining),
                           Append(ts, trade_info(o, opposite_list[j],
                                     TradeQty(opposite_list[j].quantity, remaining))))

\* lines 133-152: the opposite list written back, the residual rested when
\* remaining_qty > 0, the trades returned
AfterLoop(b1, o, r, stamp) ==
    [books |-> IF r.remaining > 0
               THEN [b1 EXCEPT ![o.symbol][OppositeKey(o.side)] = r.opposite,
                               ![o.symbol][SameKey(o.side)] =
                                   InsertResidual(o.side, b1[o.symbol][SameKey(o.side)],
                                                  new_order(o, r.remaining, stamp))]
               ELSE [b1 EXCEPT ![o.symbol][OppositeKey(o.side)] = r.opposite],
     trades |-> r.trades]

\* lines 81-131 on the books that already hold the order's symbol
RunLoop(b1, o, stamp) ==
    AfterLoop(b1, o,
              MatchLoop(o, b1[o.symbol][OppositeKey(o.side)], o.quantity, <<>>),
              stamp)

on_order_received(books, o, stamp) ==
    RunLoop(_init_symbol_if_needed(books, o.symbol), o, stamp)

\* one more callback invocation on the result of the previous ones
ReplayStep(prev, o, n) ==
    [books |-> on_order_received(prev.books, o, n).books,
     trades |-> prev.trades \o on_order_received(prev.books, o, n).trades]

\* a fresh Exchange fed the first n orders of a sequence, one call after another
RECURSIVE ReplayOrders(_, _)
ReplayOrders(orders, n) ==
    IF n = 0 THEN [books |-> EmptyBooks, trades |-> <<>>]
    ELSE ReplayStep(ReplayOrders(orders, n - 1), orders[n], n)

\* ------------------------------------------------------------------ actions
Init ==
    /\ order_books = EmptyBooks
    /\ pc = "idle"
    /\ order = NoOrder
    /\ remaining_qty = 0
    /\ matched = FALSE
    /\ trades = <<>>
    /\ pub_i = 0
    /\ published = <<>>
    /\ acks = <<>>
    /\ inbox = <<>>
    /\ tape = <<>>
    /\ book_at_entry = EmptyBooks

\* callback: the payload decodes; on_order_received starts (lines 52-82)
CallbackReceive(body) ==
    /\ pc = "idle"
    /\ body.tag = "order"
    /\ inbox' = Append(inbox, body)
    /\ order' = body
    /\ order_books' = _init_symbol_if_needed(order_books, body.symbol)
    /\ trades' = <<>>
    /\ remaining_qty' = body.quantity
    /\ matched' = TRUE
    /\ pc' = "match"
    /\ book_at_entry' = order_books
    /\ UNCHANGED <<pub_i, published, acks, tape>>

\* mutant: the except branch returns without basic_ack
CallbackDecodeError_NoAck(body) ==
    /\ pc = "idle"
    /\ body.tag = "garbage"
    /\ inbox' = Append(inbox, body)
    /\ UNCHANGED <<order_books, pc, order, remaining_qty, matched, trades,
                   pub_i, published, acks, tape, book_at_entry>>

\* callback: json.loads raises; the message is acknowledged and dropped
CallbackDecodeError(body) ==
    /\ pc = "idle"
    /\ body.tag = "garbage"
    /\ inbox' = Append(inbox, body)
    /\ acks' = Append(acks, Len(inbox) + 1)
    /\ UNCHANGED <<order_books, pc, order, remaining_qty, matched, trades,
                   pub_i, published, tape, book_at_entry>>

\* callback: the payload decodes but order["symbol"] etc. raise KeyError in
\* on_order_received; nothing catches it and start_consuming ends
CallbackKeyError(body) ==
    /\ pc = "idle"
    /\ body.tag = "nokey"
    /\ inbox' = Append(inbox, body)
    /\ order' = body
    /\ pc' = "crashed"
    /\ UNCHANGED <<order_books, remaining_qty, matched, trades, pub_i,
                   published, acks, tape, book_at_entry>>

\* one iteration of the while loop (lines 86-131)
MatchIteration ==
    /\ pc = "match"
    /\ LoopCondition
    /\ LET sym == order.symbol
           okey == OppositeKey(order.side)
           opposite_list == order_books[sym][okey]
           j == FirstMatch(order.side, order.price, opposite_list)
       IN IF j = 0
          THEN /\ matched' = FALSE
               /\ UNCHANGED <<order_books, pc, remaining_qty, trades, tape>>
          ELSE IF ListIndex(opposite_list, opposite_list[j]) = 0
          THEN /\ pc' = "crashed"
               /\ UNCHANGED <<order_books, matched, remaining_qty, trades, tape>>
          ELSE LET opp_order == opposite_list[j]
                   t == trade_info(order, opp_order,
                                   TradeQty(opp_order.quantity, remaining_qty))
               IN /\ matched' = TRUE
                  /\ order_books' = [order_books EXCEPT ![sym][okey] =
                        OppositeAfter(opposite_list, j, remaining_qty)]
                  /\ remaining_qty' = RemainingAfter(opp_order.quantity, remaining_qty)
                  /\ trades' = Append(trades, t)
                  /\ tape' = Append(tape, [body |-> t, tag |-> Len(inbox)])
                  /\ pc' = pc
    /\ UNCHANGED <<order, pub_i, published, acks, inbox, book_at_entry>>

\* the loop has ended: rest the residual, return the trades (lines 133-152)
ReturnTrades ==
    /\ pc = "match"
    /\ ~LoopCondition
    /\ LET sym == order.symbol
           skey == SameKey(order.side)
       IN IF remaining_qty > 0
          THEN order_books' = [order_books EXCEPT ![sym][skey] =
                    InsertResidual(order.side, order_books[sym][skey],
                                   new_order(order, remaining_qty, Len(inbox)))]
          ELSE UNCHANGED order_books
    /\ pc' = "publish"
    /\ pub_i' = 1
    /\ UNCHANGED <<order, remaining_qty, matched, trades, published, acks,
                   inbox, tape, book_at_entry>>

\* mutant: the trades go out last first
PublishPick_Reversed(ts, k) == ts[Len(ts) + 1 - k]

\* which trade the k-th iteration of `for t in trades` publishes
PublishPick(ts, k) == ts[k]

\* callback: one basic_publish of the for loop (lines 197-205)
PublishTrade ==
    /\ pc = "publish"
    /\ pub_i <= Len(trades)
    /\ published' = Append(published,
                           [body |-> PublishPick(trades, pub_i), tag |-> Len(inbox)])
    /\ pub_i' = pub_i + 1
    /\ UNCHANGED <<order_books, pc, order, remaining_qty, matched, trades,
                   acks, inbox, tape, book_at_entry>>

\* mutant: basic_ack is reached without waiting for the publish loop to end
Ack_BeforePublish ==
    /\ pc = "publish"
    /\ acks' = Append(acks, Len(inbox))
    /\ pc' = "idle"
    /\ order' = NoOrder
    /\ remaining_qty' = 0
    /\ matched' = FALSE
    /\ trades' = <<>>
    /\ pub_i' = 0
    /\ book_at_entry' = EmptyBooks
    /\ UNCHANGED <<order_books, published, inbox, tape>>

\* callback: basic_ack after the trades are out (line 210); the locals die
Ack ==
    /\ pc = "publish"
    /\ pub_i > Len(trades)
    /\ acks' = Append(acks, Len(inbox))
    /\ pc' = "idle"
    /\ order' = NoOrder
    /\ remaining_qty' = 0
    /\ matched' = FALSE
    /\ trades' = <<>>
    /\ pub_i' = 0
    /\ book_at_entry' = EmptyBooks
    /\ UNCHANGED <<order_books, published, inbox, tape>>

\* The engine under its precondition: every delivered payload is a valid order.
DeliverValid ==
    /\ Len(inbox) < MaxOrders
    /\ \E o \in ValidOrders : CallbackReceive(o)

Next ==
    \/ DeliverValid
    \/ MatchIteration
    \/ ReturnTrades
    \/ PublishTrade
    \/ Ack

Spec == Init /\ [][Next]_vars

\* The process as deployed: the callback takes whatever the broker delivers.
DeliverOrder ==
    /\ Len(inbox) < MaxRawMsgs
    /\ \E b \in RawBodies : CallbackReceive(b)

DeliverUndecodable ==
    /\ Len(inbox) < MaxRawMsgs
    /\ \E b \in RawBodies : CallbackDecodeError(b)

DeliverIncomplete ==
    /\ Len(inbox) < MaxRawMsgs
    /\ \E b \in RawBodies : CallbackKeyError(b)

NextRaw ==
    \/ DeliverOrder
    \/ DeliverUndecodable
    \/ DeliverIncomplete
    \/ MatchIteration
    \/ ReturnTrades
    \/ PublishTrade
    \/ Ack

SpecRaw == Init /\ [][NextRaw]_vars

\* ------------------------------------------------- vocabulary of the claims
Range(list) == {list[i] : i \in 1..Len(list)}

RECURSIVE SumQty(_)
SumQty(list) ==
    IF list = <<>> THEN 0 ELSE list[1].quantity + SumQty(Tail(list))

\* every resting entry of every book
AllResting ==
    UNION {Range(order_books[s].buy) \cup Range(order_books[s].sell) :
             s \in DOMAIN order_books}

\* on_order_received has returned for the order at hand (or none is at hand)
AtRest == pc \in {"idle", "publish"}

\* the list the order at hand is matched against
OppList == order_books[order.symbol][OppositeKey(order.side)]

\* a step of the matching loop that records a trade
TradeStep == pc = "match" /\ pc' = "match" /\ Len(trades') = Len(trades) + 1

\* the resting orders a step consumed from: those of the opposite list whose
\* entry is gone or has another quantity afterwards
Makers ==
    {m \in Range(OppList) :
        ~ \E f \in Range(OppList') : f.seq = m.seq /\ f.quantity = m.quantity}

\* ---------------------------------------------------------------------- C1
SortedByPriceTime(list, descending) ==
    \A i, j \in 1..Len(list) : i < j =>
        /\ IF descending THEN list[i].price >= list[j].price
                         ELSE list[i].price <= list[j].price
        /\ list[i].price = list[j].price => list[i].seq < list[j].seq

\* C1: in every reachable state of the engine fed valid orders, each symbol's
\* buy list is sorted by price descending and its sell list by price
\* ascending, and entries of equal price stand in arrival order.
C1_BookOrdering ==
    \A s \in DOMAIN order_books :
        /\ SortedByPriceTime(order_books[s].buy, TRUE)
        /\ SortedByPriceTime(order_books[s].sell, FALSE)

\* a buy list of three where the best price arrived second and the two
\* entries of the worse price stand first-come first
C1_Witness ==
    /\ pc = "idle"
    /\ \E s \in DOMAIN order_books :
         LET b == order_books[s].buy
         IN /\ Len(b) = 3
            /\ b[1].price > b[2].price
            /\ b[2].price = b[3].price
            /\ b[1].seq = 2 /\ b[2].seq = 1 /\ b[3].seq = 3

\* ---------------------------------------------------------------------- C2
\* C2: whenever on_order_received has completed, in every symbol every resting
\* buy price is strictly below every resting sell price (or a side is empty).
C2_NoCross ==
    AtRest =>
        \A s \in DOMAIN order_books :
            \A b \in Range(order_books[s].buy), a \in Range(order_books[s].sell) :
                b.price < a.price

\* both sides of one symbol rest after a trade in that symbol
C2_Witness ==
    /\ pc = "idle"
    /\ \E s \in DOMAIN order_books :
         /\ order_books[s].buy # <<>>
         /\ order_books[s].sell # <<>>
         /\ \E i \in 1..Len(tape) : tape[i].body.symbol = s

\* ---------------------------------------------------------------------- C3
Resting(s, side) ==
    IF s \in DOMAIN order_books THEN SumQty(order_books[s][SameKey(side)]) ELSE 0

Traded(s) ==
    SumQty(SelectSeq([i \in 1..Len(tape) |-> tape[i].body], LAMBDA t : t.symbol = s))

Submitted(s, side) ==
    SumQty(SelectSeq(inbox, LAMBDA o : o.tag = "order" /\ o.symbol = s /\ o.side = side))

\* what of the order at hand is neither traded nor rested yet
InFlight(s, side) ==
    IF pc = "match" /\ order.symbol = s /\ order.side = side THEN remaining_qty ELSE 0

\* C3: for each symbol and side, resting quantity plus traded quantity (plus
\* the unmatched rest of the order being processed) equals the quantity
\* submitted on that side; traded quantity never exceeds it.
C3_Conservation ==
    \A s \in Symbols, side \in Sides :
        /\ Resting(s, side) + Traded(s) + InFlight(s, side) = Submitted(s, side)
        /\ Traded(s) <= Submitted(s, side)

\* a resting order that has been partly filled, its aggressor gone
C3_Witness ==
    /\ pc = "idle"
    /\ tape # <<>>
    /\ \E e \in AllResting : e.quantity < inbox[e.seq].quantity

\* ---------------------------------------------------------------------- C4
\* C4: a trade never consumes a resting order while another order of the same
\* side and price that arrived earlier still rests; exactly one resting order
\* is consumed per trade.
C4_TimePriority ==
    [][TradeStep =>
        /\ Cardinality(Makers) = 1
        /\ \A m \in Makers, e \in Range(OppList) :
              e.price = m.price => e.seq >= m.seq]_vars

\* the spec's scenario 4 scaled down: BUY 1 by A, BUY 2 by B at one price,
\* then SELL 2 at that price: A is filled first, B keeps 1
C4_Witness ==
    /\ pc = "idle"
    /\ Len(tape) = 2
    /\ tape[1].tag = 3 /\ tape[2].tag = 3
    /\ tape[1].body.buyer = "A" /\ tape[1].body.quantity = 1
    /\ tape[2].body.buyer = "B" /\ tape[2].body.quantity = 1
    /\ tape[1].body.price = tape[2].body.price
    /\ \E s \in DOMAIN order_books :
         /\ Len(order_books[s].buy) = 1
         /\ order_books[s].buy[1].username = "B"
         /\ order_books[s].buy[1].quantity = 1
         /\ order_books[s].buy[1].price = tape[1].body.price

\* ---------------------------------------------------------------------- C5
\* C5: every trade carries the price of the resting order it consumed.
C5_MakerPrice ==
    [][TradeStep =>
        /\ Makers # {}
        /\ \A m \in Makers : trades'[Len(trades')].price = m.price]_vars

\* a trade whose price differs from its aggressor's limit price
C5_Witness ==
    \E i \in 1..Len(tape) : tape[i].body.price # inbox[tape[i].tag].price

\* ---------------------------------------------------------------------- C6
\* the quantity traded by the order with delivery tag k
TradedBy(k) ==
    SumQty(SelectSeq([i \in 1..Len(tape) |->
                        [quantity |-> tape[i].body.quantity, tag |-> tape[i].tag]],
                     LAMBDA t : t.tag = k))

\* C6: every resting entry has quantity > 0 in every state, and an order whose
\* whole quantity was traded has no entry in the book once its call returned.
C6_NoZeroQuantity ==
    /\ \A e \in AllResting : e.quantity > 0
    /\ \A k \in 1..Len(inbox) :
         ((k < Len(inbox) \/ AtRest) /\ TradedBy(k) = inbox[k].quantity)
            => ~ \E e \in AllResting : e.seq = k

\* the exact-exhaust case: one trade for the whole of both orders, and the
\* symbol's book is empty afterwards
C6_Witness ==
    /\ pc = "publish"
    /\ Len(trades) = 1
    /\ trades[1].quantity = order.quantity
    /\ remaining_qty = 0
    /\ order_books[order.symbol].buy = <<>>
    /\ order_books[order.symbol].sell = <<>>

\* ---------------------------------------------------------------------- C7
StrictlyBetter(side, e, m) ==
    IF side = "BUY" THEN e.price < m.price ELSE e.price > m.price

Monotone(side, ts) ==
    \A i, j \in 1..Len(ts) : i < j =>
        IF side = "BUY" THEN ts[i].price <= ts[j].price
                        ELSE ts[i].price >= ts[j].price

\* C7: a trade consumes a resting order only if no opposite order with a
\* strictly better price (or the same price and an earlier arrival) rests,
\* and the trade prices of one call are non-decreasing for a BUY aggressor,
\* non-increasing for a SELL aggressor.
C7_BestPriceFirst ==
    [][TradeStep =>
        /\ \A m \in Makers, e \in Range(OppList) :
              /\ ~StrictlyBetter(order.side, e, m)
              /\ e.price = m.price => e.seq >= m.seq
        /\ Monotone(order.side, trades')]_vars

\* the spec's scenario 3 scaled down: SELL 2@2, SELL 1@1, BUY 2@2 trades 1@1
\* then 1@2 and leaves 1@2 on the sell side
C7_Witness ==
    /\ pc = "idle"
    /\ Len(tape) = 2
    /\ tape[1].tag = 3 /\ tape[2].tag = 3
    /\ tape[1].body.price = 1 /\ tape[1].body.quantity = 1
    /\ tape[2].body.price = 2 /\ tape[2].body.quantity = 1
    /\ \E s \in DOMAIN order_books :
         /\ order_books[s].buy = <<>>
         /\ Len(order_books[s].sell) = 1
         /\ order_books[s].sell[1].price = 2
         /\ order_books[s].sell[1].quantity = 1

\* ---------------------------------------------------------------------- C8
\* C8: on a valid order on_order_received raises nothing, and every iteration
\* of its loop either records a trade that strictly reduces the remaining
\* quantity (never below 0) or finds no match, after which the loop condition
\* is false and the call returns.  The remaining quantity therefore bounds
\* the number of iterations.
C8_Totality ==
    /\ [](pc # "crashed")
    /\ [][(pc = "match" /\ pc' = "match") =>
            \/ /\ Len(trades') = Len(trades) + 1
               /\ remaining_qty' < remaining_qty
               /\ remaining_qty' >= 0
            \/ /\ trades' = trades
               /\ ~matched'
               /\ ~LoopCondition']_vars

\* a call that traded and then found the next best resting order out of reach
C8_Witness ==
    /\ pc = "match"
    /\ ~matched
    /\ Len(trades) >= 1
    /\ remaining_qty > 0
    /\ OppList # <<>>

\* ---------------------------------------------------------------------- C9
\* C9: the trades queue always holds a prefix of the trades in the order they
\* were matched, message by message, and holds all of them once the callback
\* is done with a message.
C9_TradeOrdering ==
    /\ Len(published) <= Len(tape)
    /\ \A i \in 1..Len(published) : published[i] = tape[i]
    /\ pc = "idle" => published = tape
    /\ \A i, j \in 1..Len(published) : i < j => published[i].tag <= published[j].tag

\* trades of two different messages are in the queue
C9_Witness ==
    /\ pc = "idle"
    /\ \E i, j \in 1..Len(published) : published[i].tag < published[j].tag

\* --------------------------------------------------------------------- C10
\* C10: on_order_received is only ever entered with a decodable order whose
\* side is BUY or SELL and whose price and quantity are positive.
C10_OnlyValidOrdersReachEngine ==
    pc \in {"match", "publish", "crashed"} => IsValidOrder(order)

\* --------------------------------------------------------------------- C11
\* how often delivery tag k was acknowledged
AckCount(k) == Cardinality({i \in 1..Len(acks) : acks[i] = k})

\* a step that delivers a payload that does not decode
UndecodableStep == Len(inbox') = Len(inbox) + 1 /\ inbox'[Len(inbox')].tag = "garbage"

\* C11: the step that takes an undecodable payload acknowledges exactly that
\* message, publishes nothing, starts no matching, changes no book and
\* leaves the callback ready for the next message; the message is never
\* acknowledged again.
C11_MalformedDropped ==
    /\ [][UndecodableStep =>
            /\ acks' = Append(acks, Len(inbox'))
            /\ published' = published
            /\ tape' = tape
            /\ order_books' = order_books
            /\ order' = order /\ trades' = trades
            /\ pc = "idle" /\ pc' = "idle"]_vars
    /\ [](\A k \in 1..Len(inbox) : inbox[k].tag = "garbage" => AckCount(k) = 1)

\* an undecodable message, then an order that was taken, rested and acknowledged
C11_Witness ==
    /\ pc = "idle"
    /\ Len(inbox) = 2
    /\ inbox[1].tag = "garbage"
    /\ IsValidOrder(inbox[2])
    /\ acks = <<1, 2>>
    /\ published = <<>>
    /\ \E e \in AllResting : e.seq = 2 /\ e.quantity = inbox[2].quantity

\* --------------------------------------------------------------------- C12
\* the symbols of the orders on_order_received was entered with
SymbolsSeen ==
    {inbox[k].symbol : k \in {i \in 1..Len(inbox) : inbox[i].tag = "order"}}

\* C12: a step never removes a symbol from order_books, adds at most the
\* symbol of the order just received, with both lists empty, and when it
\* receives an order it leaves every book that already existed as it was;
\* the registry holds exactly the symbols of the orders received so far.
C12_RegistryMonotone ==
    /\ [][/\ DOMAIN order_books \subseteq DOMAIN order_books'
          /\ \A s \in DOMAIN order_books' \ DOMAIN order_books :
                /\ pc = "idle" /\ pc' = "match"
                /\ s = order'.symbol
                /\ order_books'[s] = [buy |-> <<>>, sell |-> <<>>]
          /\ (pc = "idle" /\ pc' = "match") =>
                \A s \in DOMAIN order_books : order_books'[s] = order_books[s]]_vars
    /\ [](DOMAIN order_books = SymbolsSeen)

\* a symbol whose book was traded empty is still registered beside another
C12_Witness ==
    /\ pc = "idle"
    /\ DOMAIN order_books = Symbols
    /\ \E s \in DOMAIN order_books :
         /\ order_books[s] = [buy |-> <<>>, sell |-> <<>>]
         /\ \E i \in 1..Len(tape) : tape[i].body.symbol = s

\* --------------------------------------------------------------------- C13
\* an order of `side` at `price` crosses a resting opposite order
Crosses(side, resting_price, price) ==
    IF side = "BUY" THEN resting_price <= price ELSE resting_price >= price

\* the two lists of the order's symbol as the call found them
EntryList(key) ==
    IF order.symbol \in DOMAIN book_at_entry
    THEN book_at_entry[order.symbol][key] ELSE <<>>

EntryOpp == EntryList(IF order.side = "BUY" THEN "sell" ELSE "buy")
EntrySame == EntryList(IF order.side = "BUY" THEN "buy" ELSE "sell")

NowOpp == order_books[order.symbol][IF order.side = "BUY" THEN "sell" ELSE "buy"]
NowSame == order_books[order.symbol][IF order.side = "BUY" THEN "buy" ELSE "sell"]

\* C13: whenever the loop scans the opposite list, the order it selects is the
\* front of that list, and it selects it exactly when the front crosses; a
\* call that found a front it does not cross returns no trade, leaves the
\* opposite list as it was and rests the whole order on its own side.
C13_FrontOnly ==
    /\ (pc = "match" /\ LoopCondition) =>
          LET j == FirstMatch(order.side, order.price, NowOpp)
          IN /\ j \in {0, 1}
             /\ j = 1 <=> Crosses(order.side, NowOpp[1].price, order.price)
    /\ (/\ pc = "publish"
        /\ EntryOpp # <<>>
        /\ ~Crosses(order.side, EntryOpp[1].price, order.price)) =>
          /\ trades = <<>>
          /\ NowOpp = EntryOpp
          /\ Len(NowSame) = Len(EntrySame) + 1
          /\ \E i \in 1..Len(NowSame) :
                /\ NowSame[i].seq = Len(inbox)
                /\ NowSame[i].quantity = order.quantity
                /\ NowSame[i].price = order.price

\* two resting sells, then a buy below both: nothing trades, all three rest
C13_Witness ==
    /\ pc = "publish"
    /\ order.side = "BUY"
    /\ Len(EntryOpp) = 2
    /\ ~Crosses(order.side, EntryOpp[1].price, order.price)
    /\ trades = <<>>
    /\ Len(NowSame) = 1

\* --------------------------------------------------------------------- C14
\* the places of the book holding the entry of the order with delivery tag k
SlotsOf(k) ==
    {<<s, key, i>> \in (DOMAIN order_books) \X {"buy", "sell"} \X (1..Len(inbox)) :
        i <= Len(order_books[s][key]) /\ order_books[s][key][i].seq = k}

\* C14: when a call returns with remaining quantity r > 0 its own side has
\* gained exactly one entry: the order's username, side, symbol and price,
\* quantity r = original quantity minus the call's trades, standing behind
\* every entry of better or equal price and before every strictly worse
\* one, the earlier entries unchanged around it; with r = 0 the side is as
\* it was.  No order ever has more than one entry in the book.
C14_ResidualInsertion ==
    /\ pc = "publish" =>
         IF remaining_qty > 0
         THEN /\ Len(NowSame) = Len(EntrySame) + 1
              /\ \E p \in 1..Len(NowSame) :
                   /\ NowSame[p].username = order.username
                   /\ NowSame[p].side = order.side
                   /\ NowSame[p].symbol = order.symbol
                   /\ NowSame[p].price = order.price
                   /\ NowSame[p].quantity = remaining_qty
                   /\ NowSame[p].quantity = order.quantity - SumQty(trades)
                   /\ NowSame[p].seq = Len(inbox)
                   /\ [i \in 1..Len(EntrySame) |->
                         IF i < p THEN NowSame[i] ELSE NowSame[i + 1]] = EntrySame
                   /\ \A i \in 1..(p - 1) :
                         IF order.side = "BUY" THEN NowSame[i].price >= order.price
                                               ELSE NowSame[i].price <= order.price
                   /\ \A i \in (p + 1)..Len(NowSame) :
                         IF order.side = "BUY" THEN NowSame[i].price < order.price
                                               ELSE NowSame[i].price > order.price
         ELSE NowSame = EntrySame
    /\ \A k \in 1..Len(inbox) : Cardinality(SlotsOf(k)) <= 1

\* a buy that traded part of its quantity and rests the remainder ahead of
\* an earlier, lower bid
C14_Witness ==
    /\ pc = "publish"
    /\ order.side = "BUY"
    /\ Len(trades) = 1
    /\ remaining_qty > 0
    /\ Len(NowSame) = 2
    /\ NowSame[1].seq = Len(inbox)
    /\ NowSame[1].quantity < order.quantity
    /\ NowSame[2].price < order.price

\* --------------------------------------------------------------------- C15
SmallerOf(a, b) == IF a <= b THEN a ELSE b

\* C15: the quantity of every trade is the smaller of the aggressor's
\* remaining quantity and the consumed resting order's quantity just before
\* the match; it is positive; the remaining quantity and the resting order's
\* quantity both drop by exactly it (a resting order that drops to 0 leaves).
C15_TradeQuantity ==
    [][TradeStep =>
        LET q == trades'[Len(trades')].quantity
        IN /\ Cardinality(Makers) = 1
           /\ \A m \in Makers :
                 /\ q = SmallerOf(remaining_qty, m.quantity)
                 /\ q > 0
                 /\ remaining_qty' = remaining_qty - q
                 /\ IF m.quantity = q
                    THEN ~ \E f \in Range(OppList') : f.seq = m.seq
                    ELSE \E f \in Range(OppList') :
                            f.seq = m.seq /\ f.quantity = m.quantity - q]_vars

\* one call, two trades: the first takes a whole resting order and part of
\* the aggressor, the second the rest of the aggressor and part of a resting one
C15_Witness ==
    /\ pc = "match"
    /\ Len(trades) = 2
    /\ remaining_qty = 0
    /\ trades[1].quantity + trades[2].quantity = order.quantity
    /\ \E e \in Range(OppList) : e.quantity < inbox[e.seq].quantity

\* --------------------------------------------------------------------- C16
\* C16: in every trade the buyer is the user of the BUY order and the seller
\* the user of the SELL order of the pair (aggressor, consumed resting order).
C16_BuyerSeller ==
    [][TradeStep =>
        LET t == trades'[Len(trades')]
        IN /\ Makers # {}
           /\ \A m \in Makers :
                 /\ m.side # order.side
                 /\ t.buyer = (IF order.side = "BUY" THEN order.username ELSE m.username)
                 /\ t.seller = (IF order.side = "SELL" THEN order.username ELSE m.username)
                 /\ t.buyer = (IF m.side = "BUY" THEN m.username ELSE order.username)]_vars

\* the spec's scenario 2 and its mirror image: A sells, B buys all of it
\* and more (buyer B, seller A); then A sells into B's resting remainder
\* (again buyer B, seller A, now with the seller as aggressor)
C16_Witness ==
    /\ pc = "idle"
    /\ Len(tape) = 2
    /\ inbox[1].side = "SELL" /\ inbox[1].username = "A"
    /\ inbox[2].side = "BUY" /\ inbox[2].username = "B"
    /\ tape[1].tag = 2 /\ tape[1].body.buyer = "B" /\ tape[1].body.seller = "A"
    /\ tape[1].body.price = inbox[1].price
    /\ inbox[3].side = "SELL" /\ inbox[3].username = "A"
    /\ tape[2].tag = 3 /\ tape[2].body.buyer = "B" /\ tape[2].body.seller = "A"

\* --------------------------------------------------------------------- C17
\* a list as the program holds it, without the arrival stamps
Stripped(list) ==
    [i \in 1..Len(list) |->
        [username |-> list[i].username, symbol |-> list[i].symbol,
         side |-> list[i].side, price |-> list[i].price,
         quantity |-> list[i].quantity]]

\* the symbol of the order a step works on
StepSymbol == IF pc = "idle" THEN order'.symbol ELSE order.symbol

\* C17: no step of a call for symbol S changes the lists of another symbol,
\* and the call's trades all carry S; once the callback is idle, the book of
\* each symbol and the trades in it are those a fresh engine produces from
\* the orders of that symbol alone, in their order of arrival.
C17_SymbolIndependence ==
    /\ [][\A s \in DOMAIN order_books :
            s # StepSymbol =>
               /\ s \in DOMAIN order_books'
               /\ order_books'[s] = order_books[s]]_vars
    /\ [](\A i \in 1..Len(trades) : trades[i].symbol = order.symbol)
    /\ [](pc = "idle" =>
            \A s \in Symbols :
               LET sub == SelectSeq(inbox, LAMBDA o : o.symbol = s)
                   r == ReplayOrders(sub, Len(sub))
                   mine == SelectSeq([i \in 1..Len(tape) |-> tape[i].body],
                                     LAMBDA t : t.symbol = s)
               IN /\ s \in DOMAIN order_books <=> sub # <<>>
                  /\ mine = r.trades
                  /\ sub # <<>> =>
                       /\ Stripped(order_books[s].buy) = Stripped(r.books[s].buy)
                       /\ Stripped(order_books[s].sell) = Stripped(r.books[s].sell))

\* an order of one symbol rests while the other symbol trades around it
C17_Witness ==
    /\ pc = "idle"
    /\ Len(inbox) = 3
    /\ inbox[1].symbol = "S1" /\ inbox[2].symbol = "S2" /\ inbox[3].symbol = "S1"
    /\ \E i \in 1..Len(tape) : tape[i].tag = 3 /\ tape[i].body.symbol = "S1"
    /\ \E e \in AllResting : e.seq = 2 /\ e.symbol = "S2"

\* --------------------------------------------------------------------- C18
\* a call in progress on an order whose quantity is zero or negative
NonPositiveCall ==
    /\ pc \in {"match", "publish"}
    /\ order.tag = "order"
    /\ order.quantity <= 0

EmptyBook == [buy |-> <<>>, sell |-> <<>>]

\* C18: a call on an order with quantity <= 0 never enters the loop and goes
\* straight to its return; all through the call its trade list is empty, no
\* trade of it is recorded or published, every book that existed when it
\* started is exactly as it was (no resting order changed, nothing inserted
\* on either side), and the only addition to the registry is an empty book
\* for the order's symbol when there was none.
C18_NonPositiveQuantityNoOp ==
    /\ [](NonPositiveCall =>
            /\ trades = <<>>
            /\ \A i \in 1..Len(tape) : tape[i].tag # Len(inbox)
            /\ \A i \in 1..Len(published) : published[i].tag # Len(inbox)
            /\ DOMAIN order_books = DOMAIN book_at_entry \cup {order.symbol}
            /\ \A s \in DOMAIN order_books :
                  order_books[s] = IF s \in DOMAIN book_at_entry
                                   THEN book_at_entry[s] ELSE EmptyBook)
    /\ [][(NonPositiveCall /\ pc = "match") =>
            (pc' = "publish" /\ order_books' = order_books)]_vars
    /\ [][(NonPositiveCall /\ pc = "publish") =>
            (pc' = "idle" /\ order_books' = order_books /\ tape' = tape
                          /\ published' = published)]_vars

\* a call on an otherwise valid order of quantity <= 0 has returned, and the
\* front of the opposite list it found was one it crosses
C18_Witness ==
    /\ pc = "publish"
    /\ order.tag = "order"
    /\ order.quantity <= 0
    /\ order.side \in Sides
    /\ order.price > 0
    /\ EntryOpp # <<>>
    /\ Crosses(order.side, EntryOpp[1].price, order.price)
    /\ NowOpp = EntryOpp

\* --------------------------------------------------------------------- C19
\* the matching loop is at work on an order whose side is not "BUY"
NonBuyMatching ==
    /\ pc = "match"
    /\ order.tag = "order"
    /\ order.side # "BUY"

BuyList == order_books[order.symbol].buy
SellList == order_books[order.symbol].sell

\* C19: an order whose side is anything but "BUY" is handled as a SELL.  A
\* trade of such a call consumes an entry of the symbol's buy list whose
\* price is >= the order's, names that entry's user as buyer and the
\* submitter as seller, and leaves the sell list alone; the call's return
\* leaves the buy list alone and, when quantity remains, adds one entry to
\* the sell list carrying the order's own side string; the buy list never
\* grows during the call.
C19_NonBuyIsSell ==
    /\ [][(NonBuyMatching /\ Len(trades') = Len(trades) + 1) =>
            LET t == trades'[Len(trades')]
            IN /\ t.seller = order.username
               /\ \E i \in 1..Len(BuyList) :
                     /\ BuyList[i].price >= order.price
                     /\ t.buyer = BuyList[i].username
                     /\ t.price = BuyList[i].price
                     /\ \/ order_books'[order.symbol].buy = Pop(BuyList, i)
                        \/ order_books'[order.symbol].buy =
                              [BuyList EXCEPT ![i].quantity = @ - t.quantity]
               /\ order_books'[order.symbol].sell = SellList]_vars
    /\ [][(NonBuyMatching /\ pc' = "publish") =>
            /\ order_books'[order.symbol].buy = BuyList
            /\ IF remaining_qty > 0
               THEN /\ Len(order_books'[order.symbol].sell) = Len(SellList) + 1
                    /\ \E k \in 1..(Len(SellList) + 1) :
                          /\ order_books'[order.symbol].sell[k] =
                                [username |-> order.username, symbol |-> order.symbol,
                                 side |-> order.side, price |-> order.price,
                                 quantity |-> remaining_qty, seq |-> Len(inbox)]
                          /\ Pop(order_books'[order.symbol].sell, k) = SellList
               ELSE order_books'[order.symbol].sell = SellList]_vars
    /\ []((pc \in {"match", "publish"} /\ order.tag = "order" /\ order.side # "BUY") =>
            /\ \A i \in 1..Len(trades) : trades[i].seller = order.username
            /\ Len(BuyList) <= Len(EntryList("buy")))

\* an order of side "HOLD" has traded against a resting bid and its rest
\* stands in the sell list under the side string "HOLD"
C19_Witness ==
    /\ pc = "publish"
    /\ order.tag = "order"
    /\ order.side = "HOLD"
    /\ Len(trades) >= 1
    /\ \E k \in 1..Len(SellList) :
          SellList[k].seq = Len(inbox) /\ SellList[k].side = "HOLD"

\* --------------------------------------------------------------------- C20
\* positions of the opposite list as the call found it whose order has left
\* the book since
GoneMakers ==
    {i \in 1..Len(EntryOpp) :
        \A k \in 1..Len(NowOpp) : NowOpp[k].seq # EntryOpp[i].seq}

\* ... and those whose order is still there with another quantity
PartialMakers ==
    {i \in 1..Len(EntryOpp) :
        \E k \in 1..Len(NowOpp) : /\ NowOpp[k].seq = EntryOpp[i].seq
                                   /\ NowOpp[k].quantity # EntryOpp[i].quantity}

\* C20: all through a call on a valid order, the trades are no more than the
\* opposite-side orders the call found; each trade touched a resting order
\* of its own, all of them removed except at most one left with a smaller
\* positive quantity; when there is such an order it made the last trade,
\* the aggressor has nothing left and has no entry in the book.  A trade
\* is only ever made while no maker of the call is partially filled, and a
\* trade that leaves its maker in the book leaves the aggressor with 0.
C20_TradeCountAndPartialFill ==
    /\ [](pc \in {"match", "publish"} =>
            /\ Len(trades) <= Len(EntryOpp)
            /\ Cardinality(PartialMakers) <= 1
            /\ Cardinality(GoneMakers) + Cardinality(PartialMakers) = Len(trades)
            /\ \A i \in PartialMakers :
                  /\ remaining_qty = 0
                  /\ \A e \in AllResting : e.seq # Len(inbox)
                  /\ trades[Len(trades)].price = EntryOpp[i].price
                  /\ EntryOpp[i].username \in {trades[Len(trades)].buyer,
                                               trades[Len(trades)].seller}
                  /\ \E k \in 1..Len(NowOpp) :
                        /\ NowOpp[k].seq = EntryOpp[i].seq
                        /\ NowOpp[k].quantity > 0
                        /\ NowOpp[k].quantity =
                              EntryOpp[i].quantity - trades[Len(trades)].quantity)
    /\ [][TradeStep =>
            /\ PartialMakers = {}
            /\ \A m \in Makers :
                  (\E f \in Range(OppList') : f.seq = m.seq) => remaining_qty' = 0]_vars

\* a call that made two trades: the maker of the first is gone, the maker of
\* the second is left partially filled, the aggressor is not in the book
C20_Witness ==
    /\ pc = "publish"
    /\ Len(trades) = 2
    /\ Cardinality(GoneMakers) = 1
    /\ Cardinality(PartialMakers) = 1
    /\ \A e \in AllResting : e.seq # Len(inbox)

\* --------------------------------------------------------------------- C21
\* the trades of message k, in order, as recorded in a log of tagged trades
TradesOf(log, k) ==
    SelectSeq(log, LAMBDA e : e.tag = k)

\* a step that acknowledges / that takes a message from the orders queue
AckStep == Len(acks') = Len(acks) + 1
DeliveryStep == Len(inbox') = Len(inbox) + 1

\* C21: no delivery tag is acknowledged twice, and tags are acknowledged in
\* the order of delivery.  The step that acknowledges a decoded order finds
\* all trades the engine returned for it already on the trades queue, in
\* their order, and nothing is matched or published for it afterwards.
\* While a call is in progress it is the call of the last message taken,
\* that message is not acknowledged and every earlier one is; a message is
\* only taken when no call is in progress.
C21_AckOnceAfterPublish ==
    /\ [](/\ \A k \in 1..Len(inbox) : AckCount(k) <= 1
          /\ \A i \in 1..Len(acks) : acks[i] = i
          /\ Len(acks) = IF pc = "idle" THEN Len(inbox) ELSE Len(inbox) - 1
          /\ \A k \in 1..Len(acks) : TradesOf(published, k) = TradesOf(tape, k))
    /\ [][AckStep =>
            /\ acks' = Append(acks, Len(inbox'))
            /\ pc' = "idle"
            /\ (~DeliveryStep) =>
                  /\ pc = "publish"
                  /\ [i \in 1..Len(trades) |-> [body |-> trades[i], tag |-> Len(inbox)]]
                        = TradesOf(published, Len(inbox))
                  /\ TradesOf(tape, Len(inbox)) = TradesOf(published, Len(inbox))
                  /\ published' = published]_vars
    /\ [][DeliveryStep =>
            /\ pc = "idle"
            /\ trades = <<>> /\ order = NoOrder
            /\ \A k \in 1..Len(inbox) : AckCount(k) = 1]_vars

\* three orders were taken and acknowledged one after another, the last of
\* them after both of its trades were published
C21_Witness ==
    /\ pc = "idle"
    /\ acks = <<1, 2, 3>>
    /\ Len(TradesOf(published, 3)) = 2

====
